---- MODULE Spec2Model ----
(***************************************************************************)
(* Certificate generator (certificate_generator.py) and the Streamlit page *)
(* that drives it (app.py).                                                *)
(*                                                                         *)
(* Text is a sequence of code points, each written as a one-element name   *)
(* ("A", "/", "U+00F6").  An image is a record [w, h, ops]: its size and   *)
(* the draw operations applied to its pixel buffer so far.  Images live in *)
(* a heap of buffers, so that two references to one buffer can be told     *)
(* from two buffers with equal pixels.                                     *)
(***************************************************************************)
EXTENDS Integers, Sequences, FiniteSets, TLC

VARIABLES
    heap,               \* pixel buffers: reference -> image
    template,           \* self.template (a reference), "" before construction
    template_width,     \* self.template_width
    template_height,    \* self.template_height
    event_name,         \* self.event_name
    now,                \* the system clock, in microseconds
    pc,                 \* position of the running call
    mode,               \* "batch", "single" (generate_certificate alone), "app" or "preview"
    attendees,          \* batch_generate: attendees
    req,                \* the shared render arguments of the call
    save_as_pdf,        \* batch_generate: save_as_pdf
    i,                  \* batch_generate: 1-based index of the loop
    results,            \* batch_generate: results (local)
    cert,               \* generate_certificate: cert (a reference), "" when none
    cert_hash,          \* generate_certificate: cert_hash
    fonts,              \* generate_certificate: font, hash_font
    files,              \* the file system under output_dir: path -> content
    ret,                \* what the last call returned to its caller
    error,              \* the exception the last call raised, "" when none
    hashLog,            \* every generate_hash call of the running call: [name, hash]
    written,            \* every completed write of the running call: [index, path, content]
    events,             \* what the running call did, in order: <<kind, index>>
    template_uploaded,  \* st.session_state.template_uploaded
    st_attendees,       \* st.session_state.attendees
    message,            \* what the page's Generate tab shows after the last run
    click               \* the button pressed for the last run of the page, or "none"

vars == <<heap, template, template_width, template_height, event_name, now, pc,
          mode, attendees, req, save_as_pdf, i, results, cert, cert_hash, fonts,
          files, ret, error, hashLog, written, events, template_uploaded,
          st_attendees, message, click>>

genVars == <<template, template_width, template_height, event_name>>
appVars == <<template_uploaded, st_attendees, message, click>>

----
\* Bounds of the model.
MaxAttendees == 3
MaxClock == 1
\* Microseconds per second of the model's clock (the real clock has 10^6).
UsecPerSec == 2
\* Bytes a QR symbol can hold at its largest version (the real limit is 2953).
QrCapacity == 160

----
\* Code points.
OUml == "U+00F6"
Backslash == "U+005C"
AsciiLetters == {"A", "B", "D", "G", "J", "a", "d", "e", "h", "m", "n", "o", "x"}
AsciiDigits == {"1"}
NonAsciiLetters == {OUml}

\* str.isalnum(): Unicode-aware, true of every letter and digit of any script
IsAlnum(c) == c \in AsciiLetters \cup AsciiDigits \cup NonAsciiLetters

\* Attendee names.
Ahmad == <<"A", "h", "m", "a", "d">>
JohnDoe1 == <<"J", OUml, "h", "n", "/", "D", "o", "e", "*", "1">>
ASlashB == <<"A", "/", "B">>
AStarB == <<"A", "*", "B">>
LongName == [k \in 1..40 |-> "x"]

Names == {Ahmad, JohnDoe1, ASlashB, AStarB, LongName}

RECURSIVE SeqsUpTo(_, _)
SeqsUpTo(S, n) ==
    IF n = 0 THEN {<<>>}
    ELSE LET shorter == SeqsUpTo(S, n - 1)
         IN  shorter \cup {Append(s, x) : s \in {t \in shorter : Len(t) = n - 1}, x \in S}

AttendeeLists == SeqsUpTo(Names, MaxAttendees)

----
\* Fonts.
DefaultFont == [path |-> "<default>", size |-> 0]
LoadableFonts == {"fonts/Roboto.ttf"}
\* a missing file, a corrupt file, and None (download_google_font's absence signal)
FontPaths == LoadableFonts \cup {"fonts/missing.ttf", "fonts/corrupt.ttf", "None"}

Max(a, b) == IF a >= b THEN a ELSE b

\* ImageFont.truetype(font_path, size): raises unless the file loads
TruetypeRaises(font_path) == font_path \notin LoadableFonts

\* faulty variant: the fallback replaces the name font only
LoadFontsNameOnly(font_path, font_size) ==
    [font |-> IF TruetypeRaises(font_path) THEN DefaultFont
              ELSE [path |-> font_path, size |-> font_size],
     hash_font |-> [path |-> font_path, size |-> Max(12, font_size \div 3)]]

\* lines 145-151: the two fonts, or the default font for both when loading raises
LoadFonts(font_path, font_size) ==
    IF TruetypeRaises(font_path)
    THEN [font |-> DefaultFont, hash_font |-> DefaultFont]
    ELSE [font |-> [path |-> font_path, size |-> font_size],
          hash_font |-> [path |-> font_path, size |-> Max(12, font_size \div 3)]]

NoFonts == [font |-> DefaultFont, hash_font |-> DefaultFont]

----
\* The clock and the hash.
DigitChars == <<"0", "1", "2", "3", "4", "5", "6", "7", "8", "9">>

RECURSIVE Decimal(_)
Decimal(n) ==
    IF n < 10 THEN <<DigitChars[n + 1]>>
    ELSE Decimal(n \div 10) \o <<DigitChars[(n % 10) + 1]>>

\* datetime.isoformat(): the microseconds are left out when they are zero
Isoformat(t) ==
    <<"T">> \o Decimal(t \div UsecPerSec)
        \o (IF t % UsecPerSec = 0 THEN <<>> ELSE <<".">> \o Decimal(t % UsecPerSec))

\* strftime("%Y-%m-%d %H:%M:%S"): whole seconds
Strftime(t) == <<"T">> \o Decimal(t \div UsecPerSec)

\* hashlib.sha256(data).hexdigest(), taken to be free of collisions: the digest
\* stands for the data it was computed from and for nothing else
Sha256(data) == [sha256 |-> data]

\* generate_hash, reading the clock at t
GenerateHash(attendee_name, event, t) ==
    Sha256(attendee_name \o event \o Isoformat(t))

NoHash == Sha256(<<>>)

\* f"ID: {cert_hash[:12].upper()}"
HashDisplay(h) == [prefix |-> "ID: ", upper12 |-> h]

----
\* The QR code.
\* json.dumps escapes: a non-ASCII code point becomes \uXXXX, a backslash two
\* backslashes
EscapedLen(c) == IF c \in NonAsciiLetters THEN 6 ELSE IF c = Backslash THEN 2 ELSE 1

RECURSIVE JsonStringLen(_)
JsonStringLen(s) == IF s = <<>> THEN 0 ELSE EscapedLen(Head(s)) + JsonStringLen(Tail(s))

\* generate_qr_code lines 95-100
VerificationData(attendee_name, h, event, t) ==
    [hash |-> h, name |-> attendee_name, event |-> event, date |-> Strftime(t)]

\* len(json.dumps(verification_data)): keys and punctuation, the 64 digits of the
\* hash, the 19 characters of the date, and the two free texts
JsonLen(data) == 49 + 64 + 19 + JsonStringLen(data.name) + JsonStringLen(data.event)

\* qr.make(fit=True) raises DataOverflowError when no version holds the data
QrOverflows(data) == JsonLen(data) > QrCapacity

----
\* Images.
LoadedImage(w, h) == [w |-> w, h |-> h, ops |-> <<>>]

\* ImageDraw.text: draws into the buffer, the size is the buffer's
DrawText(img, pos, text, font, fill) ==
    [img EXCEPT !.ops = Append(@, [op |-> "text", at |-> pos,
                                   what |-> [text |-> text, font |-> font, fill |-> fill]])]

\* faulty variant: the canvas grows to hold a box that sticks out
PasteGrowing(img, qr, pos) ==
    [w |-> Max(img.w, pos[1] + qr.w), h |-> Max(img.h, pos[2] + qr.h),
     ops |-> Append(img.ops, [op |-> "paste", at |-> pos, what |-> qr])]

\* Image.paste: overwrites the box, clipped to the buffer
Paste(img, qr, pos) ==
    [img EXCEPT !.ops = Append(@, [op |-> "paste", at |-> pos, what |-> qr])]

\* generate_qr_code followed by resize((qr_size, qr_size))
QrImage(data, qr_size) == [w |-> qr_size, h |-> qr_size, payload |-> data]

TemplateRef == "template"
CertRef == "cert"

\* faulty variant: cert = self.template: no copy, the template's own buffer
CopyTargetAliased(src) == src

\* Image.copy(): a new buffer
CopyTarget(src) == CertRef


----
\* File names and the file system.
\* faulty variant: dots are kept too
AllowedWithDots(c) == IsAlnum(c) \/ c \in {" ", "-", "_", "."}

Allowed(c) == IsAlnum(c) \/ c \in {" ", "-", "_"}

\* faulty variant: only ASCII letters and digits count as alphanumeric
RECURSIVE SafeNameAscii(_)
SafeNameAscii(attendee) ==
    IF attendee = <<>> THEN <<>>
    ELSE <<IF Head(attendee) \in AsciiLetters \cup AsciiDigits \cup {" ", "-", "_"}
           THEN Head(attendee) ELSE "_">> \o SafeNameAscii(Tail(attendee))

\* line 248: "".join(c if c.isalnum() or c in (' ', '-', '_') else '_' for c in attendee)
RECURSIVE SafeName(_)
SafeName(attendee) ==
    IF attendee = <<>> THEN <<>>
    ELSE <<IF Allowed(Head(attendee)) THEN Head(attendee) ELSE "_">>
             \o SafeName(Tail(attendee))

PdfExt == <<".", "p", "d", "f">>
PngExt == <<".", "p", "n", "g">>

\* os.path.join(a, b): an absolute b replaces a
OsPathJoin(a, b) ==
    IF b # <<>> /\ b[1] = "/" THEN b ELSE a \o <<"/">> \o b

OutputDir == <<"o", "u", "t">>

\* lines 249-253: the output path of one attendee
OutputPath(attendee, pdf) ==
    OsPathJoin(OutputDir, SafeName(attendee) \o (IF pdf THEN PdfExt ELSE PngExt))

\* what save_as_pdf (lines 190-199) or cert.save (line 254) puts in the file
FileContent(img, pdf) == [format |-> IF pdf THEN "PDF" ELSE "PNG", image |-> img]

\* a file left behind by an earlier run, and a file opened for writing and never filled
StaleFile == [format |-> "stale", image |-> LoadedImage(0, 0)]
PartialFile == [format |-> "partial", image |-> LoadedImage(0, 0)]

NoFiles == [p \in {} |-> StaleFile]
StalePath == OsPathJoin(OutputDir, <<"A", "_", "B">> \o PdfExt)
\* os.makedirs(output_dir, exist_ok=True) keeps what the directory holds
InitialDirs == {NoFiles, StalePath :> StaleFile}

\* faulty variant: an existing file is kept
WriteFileKeepFirst(fs, path, content) == fs @@ (path :> content)

\* a write that succeeds: open(path, 'wb') replaces what was there
WriteFile(fs, path, content) == (path :> content) @@ fs

\* a write that raises after the file was opened: open(path, 'wb') has truncated
\* it; Image.save removes the file again when it had created it
FailedWrite(fs, path, pdf) ==
    IF pdf \/ path \in DOMAIN fs THEN (path :> PartialFile) @@ fs ELSE fs

----
\* Render arguments.
BaseReq == [name_position |-> <<600, 400>>, font_path |-> "fonts/Roboto.ttf",
            font_size |-> 60, text_color |-> <<0, 0, 0>>,
            hash_position |-> <<>>, qr_position |-> <<>>, qr_size |-> 150]

Requests ==
    {[BaseReq EXCEPT !.font_path = f] : f \in FontPaths}
        \cup {[BaseReq EXCEPT !.font_size = 30, !.hash_position = <<50, 700>>,
                              !.qr_position = <<1000, 600>>, !.qr_size = 80]}

\* lines 161-166: hash_position, or bottom left
HashPos(r, height) ==
    IF r.hash_position # <<>> THEN r.hash_position ELSE <<50, height - 100>>

\* lines 172-177: qr_position, or bottom right
QrPos(r, width, height) ==
    IF r.qr_position # <<>> THEN r.qr_position
    ELSE <<width - r.qr_size - 50, height - r.qr_size - 50>>

\* faulty variant: generate_qr_code is handed a hash minted anew
QrHashArgReminted(h, attendee_name, event, t) == GenerateHash(attendee_name, event, t)

\* line 169: the hash handed to generate_qr_code
QrHashArg(h, attendee_name, event, t) == h

NoReturn == [returned |-> FALSE, value |-> <<>>]
Returned(v) == [returned |-> TRUE, value |-> v]

\* faulty variant: the records gathered so far are returned when an attendee fails
RaiseOutcomePartial(partial) == Returned(partial)

\* batch_generate has no try/except: an exception leaves it without a return value
\* and its local results are gone
RaiseOutcome(partial) == NoReturn

\* faulty variant: the new record goes to the front
AddResultFront(rs, rec) == <<rec>> \o rs

\* line 256: results.append
AddResult(rs, rec) == Append(rs, rec)

\* faulty variant: an empty list is refused
LoopEntryRefusesEmpty(atts) == IF atts = <<>> THEN "failed" ELSE "render"

\* line 235: the loop body runs once per attendee, not at all for an empty list
LoopEntry(atts) == IF atts = <<>> THEN "return" ELSE "render"

\* faulty variant: the record is appended without the certificate being saved
AfterRenderSkipsSave(single) == IF single THEN "done" ELSE "append"

\* lines 236-254: generate_certificate returns to its caller; batch_generate goes
\* on to save the certificate
AfterRender(single) == IF single THEN "done" ELSE "write"

InBatch == mode \in {"batch", "app"}
IsSingle == mode \in {"single", "preview"}

----
\* Construction: lines 24-26.
Construct(w, h, event) ==
    /\ heap' = (TemplateRef :> LoadedImage(w, h))
    /\ template' = TemplateRef
    /\ template_width' = w
    /\ template_height' = h
    /\ event_name' = event

GdgEvent == <<"G", "D", "G">>

Idle == pc = "idle"

\* what every call starts from
StartCall(m, atts, r, pdf, dir) ==
    /\ UNCHANGED heap
    /\ mode' = m
    /\ attendees' = atts
    /\ req' = r
    /\ save_as_pdf' = pdf
    /\ i' = 1
    /\ results' = <<>>
    /\ cert' = ""
    /\ cert_hash' = NoHash
    /\ fonts' = NoFonts
    /\ files' = dir
    /\ ret' = NoReturn
    /\ error' = ""
    /\ hashLog' = <<>>
    /\ written' = <<>>
    /\ events' = <<>>

\* a caller invokes batch_generate (lines 232-235)
CallBatchGenerate ==
    /\ Idle
    /\ template # ""
    /\ \E atts \in AttendeeLists, r \in Requests, pdf \in BOOLEAN, dir \in InitialDirs :
          /\ StartCall("batch", atts, r, pdf, dir)
          /\ pc' = LoopEntry(atts)
    /\ UNCHANGED <<genVars, now, appVars>>

\* a caller invokes generate_certificate alone
CallGenerateCertificate ==
    /\ Idle
    /\ template # ""
    /\ \E name \in Names, r \in Requests :
          /\ StartCall("single", <<name>>, r, FALSE, NoFiles)
          /\ pc' = "render"
    /\ UNCHANGED <<genVars, now, appVars>>

\* the caller has taken the call's outcome and drops it; the buffer of the last
\* certificate is garbage
ResetCall ==
    /\ pc' = "idle"
    /\ heap' = [x \in {template} |-> heap[template]]
    /\ mode' = "batch"
    /\ attendees' = <<>>
    /\ req' = BaseReq
    /\ save_as_pdf' = TRUE
    /\ i' = 1
    /\ results' = <<>>
    /\ cert' = ""
    /\ cert_hash' = NoHash
    /\ fonts' = NoFonts
    /\ files' = NoFiles
    /\ ret' = NoReturn
    /\ error' = ""
    /\ hashLog' = <<>>
    /\ written' = <<>>
    /\ events' = <<>>

CallerProceeds ==
    /\ pc \in {"done", "failed"}
    /\ mode \in {"batch", "single"}
    /\ ResetCall
    /\ UNCHANGED <<genVars, now, appVars>>

\* the clock advances; it is read at lines 80 and 99 only
Tick ==
    /\ pc \in {"mint", "qr"}
    /\ now < MaxClock
    /\ now' = now + 1
    /\ UNCHANGED <<heap, genVars, pc, mode, attendees, req, save_as_pdf, i, results,
                   cert, cert_hash, fonts, files, ret, error, hashLog, written,
                   events, appVars>>

\* generate_certificate lines 141-154: copy the template, load the fonts, draw the name
RenderDraw ==
    /\ pc = "render"
    /\ LET name == attendees[i]
           ref == CopyTarget(template)
           fs == LoadFonts(req.font_path, req.font_size)
       IN  /\ cert' = ref
           /\ fonts' = fs
           /\ heap' = (ref :> DrawText(heap[template], req.name_position, name,
                                       fs.font, req.text_color)) @@ heap
    /\ events' = Append(events, <<"render", i>>)
    /\ pc' = "mint"
    /\ UNCHANGED <<genVars, now, mode, attendees, req, save_as_pdf, i, results,
                   cert_hash, files, ret, error, hashLog, written, appVars>>

\* generate_certificate lines 157-166: mint the hash, draw its first digits
RenderMint ==
    /\ pc = "mint"
    /\ LET name == attendees[i]
           h == GenerateHash(name, event_name, now)
       IN  /\ cert_hash' = h
           /\ hashLog' = Append(hashLog, [name |-> name, event |-> event_name, hash |-> h])
           /\ heap' = [heap EXCEPT ![cert] =
                          DrawText(@, HashPos(req, template_height), HashDisplay(h),
                                   fonts.hash_font, req.text_color)]
    /\ pc' = "qr"
    /\ UNCHANGED <<genVars, now, mode, attendees, req, save_as_pdf, i, results, cert,
                   fonts, files, ret, error, written, events, appVars>>

\* generate_certificate lines 169-179: build the QR code, paste it, return
RenderQr ==
    /\ pc = "qr"
    /\ LET name == attendees[i]
           data == VerificationData(name, QrHashArg(cert_hash, name, event_name, now),
                                    event_name, now)
           pasted == Paste(heap[cert], QrImage(data, req.qr_size),
                           QrPos(req, template_width, template_height))
       IN  IF QrOverflows(data)
           THEN /\ pc' = "failed"
                /\ error' = "DataOverflowError"
                /\ ret' = IF IsSingle THEN NoReturn ELSE RaiseOutcome(results)
                /\ UNCHANGED heap
           ELSE /\ heap' = [heap EXCEPT ![cert] = pasted]
                /\ pc' = AfterRender(IsSingle)
                /\ ret' = IF IsSingle
                          THEN Returned(<<[image |-> pasted, hash |-> cert_hash]>>)
                          ELSE ret
                /\ UNCHANGED error
    /\ UNCHANGED <<genVars, now, mode, attendees, req, save_as_pdf, i, results, cert,
                   cert_hash, fonts, files, hashLog, written, events, appVars>>

\* batch_generate lines 248-254: derive the path and save the certificate
Write ==
    /\ pc = "write"
    /\ LET path == OutputPath(attendees[i], save_as_pdf)
           content == FileContent(heap[cert], save_as_pdf)
       IN  /\ files' = WriteFile(files, path, content)
           /\ written' = Append(written, [index |-> i, path |-> path, content |-> content])
    /\ events' = Append(events, <<"write", i>>)
    /\ pc' = "append"
    /\ UNCHANGED <<heap, genVars, now, mode, attendees, req, save_as_pdf, i, results,
                   cert, cert_hash, fonts, ret, error, hashLog, appVars>>

\* the save raises IOError: before the file is opened (nothing changes) or after
WriteFails ==
    /\ pc = "write"
    /\ \E opened \in BOOLEAN :
          LET path == OutputPath(attendees[i], save_as_pdf)
          IN  files' = IF opened THEN FailedWrite(files, path, save_as_pdf) ELSE files
    /\ pc' = "failed"
    /\ error' = "IOError"
    /\ ret' = RaiseOutcome(results)
    /\ UNCHANGED <<heap, genVars, now, mode, attendees, req, save_as_pdf, i, results,
                   cert, cert_hash, fonts, hashLog, written, events, appVars>>

\* batch_generate lines 256-260 and the loop's next round
AppendResult ==
    /\ pc = "append"
    /\ results' = AddResult(results, [name |-> attendees[i], hash |-> cert_hash,
                                      path |-> OutputPath(attendees[i], save_as_pdf)])
    /\ events' = Append(events, <<"append", i>>)
    /\ i' = i + 1
    /\ pc' = IF i = Len(attendees) THEN "return" ELSE "render"
    /\ UNCHANGED <<heap, genVars, now, mode, attendees, req, save_as_pdf, cert,
                   cert_hash, fonts, files, ret, error, hashLog, written, appVars>>

\* batch_generate line 262
BatchReturn ==
    /\ pc = "return"
    /\ ret' = Returned(results)
    /\ pc' = "done"
    /\ UNCHANGED <<heap, genVars, now, mode, attendees, req, save_as_pdf, i, results,
                   cert, cert_hash, fonts, files, error, hashLog, written, events,
                   appVars>>

----
\* The generator used as a library: constructed, then called any number of times.
Init ==
    /\ heap = (TemplateRef :> LoadedImage(1200, 800))
    /\ template = TemplateRef
    /\ template_width = 1200
    /\ template_height = 800
    /\ event_name = GdgEvent
    /\ now = 0
    /\ pc = "idle"
    /\ mode = "batch"
    /\ attendees = <<>>
    /\ req = BaseReq
    /\ save_as_pdf = TRUE
    /\ i = 1
    /\ results = <<>>
    /\ cert = ""
    /\ cert_hash = NoHash
    /\ fonts = NoFonts
    /\ files = NoFiles
    /\ ret = NoReturn
    /\ error = ""
    /\ hashLog = <<>>
    /\ written = <<>>
    /\ events = <<>>
    /\ template_uploaded = FALSE
    /\ st_attendees = <<>>
    /\ message = ""
    /\ click = "none"

Next ==
    \/ CallBatchGenerate
    \/ CallGenerateCertificate
    \/ CallerProceeds
    \/ Tick
    \/ RenderDraw
    \/ RenderMint
    \/ RenderQr
    \/ Write
    \/ WriteFails
    \/ AppendResult
    \/ BatchReturn

Spec == Init /\ [][Next]_vars

----
\* The page (app.py).  Streamlit runs the whole script once per interaction; the
\* widgets' values are the run's inputs.
LF == "LF"
Whitespace == {" ", LF}

\* str.strip()
RECURSIVE LStrip(_)
LStrip(s) == IF s # <<>> /\ Head(s) \in Whitespace THEN LStrip(Tail(s)) ELSE s

RECURSIVE RStrip(_)
RStrip(s) ==
    IF s # <<>> /\ s[Len(s)] \in Whitespace THEN RStrip(SubSeq(s, 1, Len(s) - 1)) ELSE s

Strip(s) == RStrip(LStrip(s))

\* str.split('\n'): the pieces between line feeds, empty ones included
RECURSIVE SplitLines(_)
SplitLines(s) ==
    IF \A k \in 1..Len(s) : s[k] # LF THEN <<s>>
    ELSE LET k == CHOOSE k \in 1..Len(s) : s[k] = LF /\ \A m \in 1..(k - 1) : s[m] # LF
         IN  <<SubSeq(s, 1, k - 1)>> \o SplitLines(SubSeq(s, k + 1, Len(s)))

RECURSIVE StripNonEmpty(_)
StripNonEmpty(pieces) ==
    IF pieces = <<>> THEN <<>>
    ELSE (IF Strip(Head(pieces)) # <<>> THEN <<Strip(Head(pieces))>> ELSE <<>>)
             \o StripNonEmpty(Tail(pieces))

\* line 79: [name.strip() for name in manual_input.split('\n') if name.strip()]
ParseManual(text) == StripNonEmpty(SplitLines(text))

ManualTexts ==
    {<<>>, <<" ", LF, " ">>, Ahmad \o <<LF>>,
     <<" ">> \o ASlashB \o <<LF, LF>> \o AStarB \o <<" ">>,
     LongName \o <<LF>> \o Ahmad}

\* a missing cell of the uploaded table
NaN == <<"NaN">>

RECURSIVE DropNa(_)
DropNa(cells) ==
    IF cells = <<>> THEN <<>>
    ELSE (IF Head(cells) = NaN THEN <<>> ELSE <<Head(cells)>>) \o DropNa(Tail(cells))

\* line 97: df.iloc[:, 0].dropna().astype(str).tolist()
FirstColumn(file) == DropNa(file.cells)

\* the file uploader of tab 2: nothing, a file pandas cannot read (or one without
\* columns), or a table given by the cells of its first column
UploadedFiles ==
    {[kind |-> "none", cells |-> <<>>],
     [kind |-> "unreadable", cells |-> <<>>],
     [kind |-> "table", cells |-> <<>>],
     [kind |-> "table", cells |-> <<NaN>>],
     [kind |-> "table", cells |-> <<Ahmad, NaN, Ahmad>>]}

WidgetStates ==
    [template_file : {"none", "ok", "corrupt"},
     method : {"manual", "file"},
     manual_input : ManualTexts,
     uploaded_file : UploadedFiles,
     click : {"none", "load", "preview", "generate"}]

\* lines 128-131: download_google_font gives a path or None
AppRequests == {BaseReq, [BaseReq EXCEPT !.font_path = "None"]}

\* lines 45-56: template_uploaded after tab 1
UploadedAfterTab1(w) == template_uploaded \/ w.template_file = "ok"

\* lines 67-104: st.session_state.attendees after tab 2
AttendeesAfterTab2(w) ==
    IF ~UploadedAfterTab1(w) THEN st_attendees
    ELSE IF w.method = "manual"
         THEN IF w.click = "load" /\ Strip(w.manual_input) # <<>>
              THEN ParseManual(w.manual_input)
              ELSE st_attendees
         ELSE IF w.uploaded_file.kind = "table"
              THEN FirstColumn(w.uploaded_file)
              ELSE st_attendees

\* faulty variant: tab 4 checks the template only
Tab4ReadyTemplateOnly(uploaded, atts) == uploaded

\* lines 209-213: tab 4 offers generation
Tab4Ready(uploaded, atts) == uploaded /\ atts # <<>>

\* lines 209-214: what tab 4 shows
Tab4Message(uploaded, atts) ==
    IF ~uploaded THEN "warn_template"
    ELSE IF atts = <<>> THEN "warn_attendees"
    ELSE "ready"

\* tabs 1 and 2 of a run
Tabs12(w) ==
    /\ w.template_file # "corrupt"
    /\ IF w.template_file = "ok"
       THEN Construct(1200, 800, GdgEvent)
       ELSE UNCHANGED <<heap, genVars>>
    /\ template_uploaded' = UploadedAfterTab1(w)
    /\ st_attendees' = AttendeesAfterTab2(w)
    /\ click' = w.click

\* lines 170-173: tab 3 renders a preview
PreviewStarts(w) ==
    /\ w.click = "preview"
    /\ UploadedAfterTab1(w)
    /\ AttendeesAfterTab2(w) # <<>>

\* lines 209-227: tab 4 starts the batch
GenerateStarts(w) ==
    /\ w.click = "generate"
    /\ Tab4Ready(UploadedAfterTab1(w), AttendeesAfterTab2(w))

CallLocals == <<mode, attendees, req, save_as_pdf, i, results, cert, cert_hash, fonts,
                files, ret, error, hashLog, written, events>>

\* line 55 raises on an image that cannot be opened: the run ends there
AppScriptCrashes ==
    /\ pc = "idle"
    /\ \E w \in WidgetStates :
          /\ w.template_file = "corrupt"
          /\ click' = w.click
    /\ message' = "exception"
    /\ UNCHANGED <<heap, genVars, now, pc, CallLocals, template_uploaded, st_attendees>>

\* a run of the script that renders nothing
AppScriptRuns ==
    /\ pc = "idle"
    /\ \E w \in WidgetStates :
          /\ Tabs12(w)
          /\ ~PreviewStarts(w)
          /\ ~GenerateStarts(w)
          /\ message' = Tab4Message(UploadedAfterTab1(w), AttendeesAfterTab2(w))
    /\ UNCHANGED <<now, pc, CallLocals>>

\* a run with "Generate Preview" pressed: lines 173-185 call generate_certificate
AppPreview ==
    /\ pc = "idle"
    /\ \E w \in WidgetStates, r \in AppRequests :
          /\ Tabs12(w)
          /\ PreviewStarts(w)
          /\ \E k \in 1..Len(AttendeesAfterTab2(w)) :
                StartCall("preview", <<AttendeesAfterTab2(w)[k]>>, r, FALSE, NoFiles)
          /\ message' = Tab4Message(UploadedAfterTab1(w), AttendeesAfterTab2(w))
    /\ pc' = "render"
    /\ UNCHANGED now

\* a run with "Bulk Generate" pressed: lines 227-262 clear the directory and call
\* batch_generate
AppGenerate ==
    /\ pc = "idle"
    /\ \E w \in WidgetStates, r \in AppRequests, pdf \in BOOLEAN :
          /\ Tabs12(w)
          /\ GenerateStarts(w)
          /\ StartCall("app", AttendeesAfterTab2(w), r, pdf, NoFiles)
          /\ pc' = LoopEntry(AttendeesAfterTab2(w))
          /\ message' = Tab4Message(UploadedAfterTab1(w), AttendeesAfterTab2(w))
    /\ UNCHANGED now

\* lines 186-190 and 264-303: the run shows the outcome and ends
AppFinish ==
    /\ pc \in {"done", "failed"}
    /\ mode \in {"app", "preview"}
    /\ ResetCall
    /\ message' = IF mode = "preview" THEN message
                  ELSE IF pc = "done" THEN "success" ELSE "error"
    /\ UNCHANGED <<genVars, now, template_uploaded, st_attendees, click>>

EmptyHeap == [x \in {} |-> LoadedImage(0, 0)]

\* lines 17-22: a fresh session
InitApp ==
    /\ heap = EmptyHeap
    /\ template = ""
    /\ template_width = 0
    /\ template_height = 0
    /\ event_name = <<>>
    /\ now = 0
    /\ pc = "idle"
    /\ mode = "batch"
    /\ attendees = <<>>
    /\ req = BaseReq
    /\ save_as_pdf = TRUE
    /\ i = 1
    /\ results = <<>>
    /\ cert = ""
    /\ cert_hash = NoHash
    /\ fonts = NoFonts
    /\ files = NoFiles
    /\ ret = NoReturn
    /\ error = ""
    /\ hashLog = <<>>
    /\ written = <<>>
    /\ events = <<>>
    /\ template_uploaded = FALSE
    /\ st_attendees = <<>>
    /\ message = ""
    /\ click = "none"

NextApp ==
    \/ AppScriptCrashes
    \/ AppScriptRuns
    \/ AppPreview
    \/ AppGenerate
    \/ AppFinish
    \/ Tick
    \/ RenderDraw
    \/ RenderMint
    \/ RenderQr
    \/ Write
    \/ WriteFails
    \/ AppendResult
    \/ BatchReturn

SpecApp == InitApp /\ [][NextApp]_vars

----
\* The generator on unusual inputs: small templates, positions outside the image.
TemplateSizes == {<<1200, 800>>, <<100, 60>>}

\* positions beyond the right and bottom edges, a QR code that sticks out
OutsideReq == [BaseReq EXCEPT !.name_position = <<5000, -10>>, !.font_size = 150,
                              !.hash_position = <<-20, 900>>,
                              !.qr_position = <<1150, 760>>, !.qr_size = 300]

\* a QR code of one pixel pasted wholly outside, above and left of the image
NegativeReq == [BaseReq EXCEPT !.font_size = 1, !.font_path = "None",
                               !.qr_position = <<-500, -500>>, !.qr_size = 1]

EdgeRequests == {BaseReq, OutsideReq, NegativeReq}

\* a caller invokes generate_certificate with any positions and sizes
CallRenderAny ==
    /\ Idle
    /\ template # ""
    /\ \E name \in {Ahmad, LongName}, r \in EdgeRequests :
          /\ StartCall("single", <<name>>, r, FALSE, NoFiles)
          /\ pc' = "render"
    /\ UNCHANGED <<genVars, now, appVars>>

\* names made of separators and dots, and the empty name
UpDir == <<".", ".", "/", "x">>
DotDot == <<".", ".">>
AbsPath == <<"/", "e">>
WinPath == <<"a", Backslash, ".", "d">>

OddNames == {<<>>, UpDir, DotDot, AbsPath, WinPath}

\* a caller invokes batch_generate with such names
CallBatchOddNames ==
    /\ Idle
    /\ template # ""
    /\ \E atts \in SeqsUpTo(OddNames, MaxAttendees), pdf \in BOOLEAN, dir \in InitialDirs :
          /\ StartCall("batch", atts, BaseReq, pdf, dir)
          /\ pc' = LoopEntry(atts)
    /\ UNCHANGED <<genVars, now, appVars>>

\* lines 24-26, for any template
InitEdge ==
    /\ \E size \in TemplateSizes :
          /\ heap = (TemplateRef :> LoadedImage(size[1], size[2]))
          /\ template_width = size[1]
          /\ template_height = size[2]
    /\ template = TemplateRef
    /\ event_name = GdgEvent
    /\ now = 0
    /\ pc = "idle"
    /\ mode = "batch"
    /\ attendees = <<>>
    /\ req = BaseReq
    /\ save_as_pdf = TRUE
    /\ i = 1
    /\ results = <<>>
    /\ cert = ""
    /\ cert_hash = NoHash
    /\ fonts = NoFonts
    /\ files = NoFiles
    /\ ret = NoReturn
    /\ error = ""
    /\ hashLog = <<>>
    /\ written = <<>>
    /\ events = <<>>
    /\ template_uploaded = FALSE
    /\ st_attendees = <<>>
    /\ message = ""
    /\ click = "none"

NextEdge ==
    \/ CallRenderAny
    \/ CallBatchOddNames
    \/ CallerProceeds
    \/ Tick
    \/ RenderDraw
    \/ RenderMint
    \/ RenderQr
    \/ Write
    \/ WriteFails
    \/ AppendResult
    \/ BatchReturn

SpecEdge == InitEdge /\ [][NextEdge]_vars

----
\* Reading the artefacts back.
Range(f) == {f[x] : x \in DOMAIN f}

\* the file name's stem: the path without the directory and the extension
Stem(path) == SubSeq(path, Len(OutputDir) + 2, Len(path) - Len(PdfExt))

PasteOps(img) == {k \in 1..Len(img.ops) : img.ops[k].op = "paste"}
TextOps(img) == {k \in 1..Len(img.ops) : img.ops[k].op = "text"}

\* the payload of the QR code pasted on an image last
QrPayload(img) ==
    img.ops[CHOOSE k \in PasteOps(img) : \A m \in PasteOps(img) : m <= k].what.payload

\* the last attendee of the returned records whose record carries path p
LastWith(recs, p) ==
    CHOOSE b \in 1..Len(recs) :
        /\ recs[b].path = p
        /\ \A c \in 1..Len(recs) : recs[c].path = p => c <= b

Kept == AsciiLetters \cup AsciiDigits \cup NonAsciiLetters \cup {" ", "-", "_"}

\* the sanitizing map of the claims, character by character
IsCharMap(name, stem) ==
    /\ Len(stem) = Len(name)
    /\ \A k \in 1..Len(name) : stem[k] = IF name[k] \in Kept THEN name[k] ELSE "_"

----
\* C1: the records batch_generate has gathered are, at every point of the run,
\* those of a prefix of the input, in input order; a batch that completes returns
\* exactly one record per attendee, the k-th carrying the k-th input name.
C1_OneRecordPerAttendeeInOrder ==
    InBatch =>
        /\ Len(results) <= Len(attendees)
        /\ \A k \in 1..Len(results) : results[k].name = attendees[k]
        /\ pc = "done" =>
              /\ ret.returned
              /\ Len(ret.value) = Len(attendees)
              /\ \A k \in 1..Len(attendees) : ret.value[k].name = attendees[k]

\* a batch of three with a duplicated name has completed
C1_Witness ==
    /\ InBatch /\ pc = "done" /\ ret.returned
    /\ Len(attendees) = 3
    /\ attendees[1] = attendees[3] /\ attendees[1] # attendees[2]

\* C2 as stated: the stem is the character-by-character map, "Ahmad" is unchanged
\* and "Jöhn/Doe*1" gives "J_hn_Doe_1".
C2_AsStated ==
    \A k \in 1..Len(results) :
        /\ IsCharMap(results[k].name, Stem(results[k].path))
        /\ results[k].name = Ahmad => Stem(results[k].path) = Ahmad
        /\ results[k].name = JohnDoe1 =>
              Stem(results[k].path) = <<"J", "_", "h", "n", "_", "D", "o", "e", "_", "1">>

\* C2 (amended): the stem of every record's path is its name with every character
\* other than a letter or digit of any script, a space, a hyphen or an underscore
\* replaced one for one by an underscore; "Ahmad" is unchanged and "Jöhn/Doe*1"
\* gives "Jöhn_Doe_1", the letter ö being alphanumeric.
C2_SanitizedStem ==
    \A k \in 1..Len(results) :
        /\ IsCharMap(results[k].name, Stem(results[k].path))
        /\ results[k].name = Ahmad => Stem(results[k].path) = Ahmad
        /\ results[k].name = JohnDoe1 =>
              Stem(results[k].path) = <<"J", OUml, "h", "n", "_", "D", "o", "e", "_", "1">>

\* both example names have been written in one batch
C2_Witness ==
    /\ pc = "done" /\ InBatch
    /\ \E a, b \in 1..Len(results) : results[a].name = Ahmad /\ results[b].name = JohnDoe1

\* C3: after a completed batch, attendees that sanitize to the same file name have
\* records with the same path, that path holds the certificate of the last of them
\* in input order, and the batch wrote as many files as there are distinct
\* sanitized names.
C3_CollisionsOverwrite ==
    (InBatch /\ pc = "done") =>
        LET recs == ret.value
            paths == {recs[k].path : k \in 1..Len(recs)}
        IN  /\ \A a, b \in 1..Len(recs) :
                  SafeName(attendees[a]) = SafeName(attendees[b])
                      => recs[a].path = recs[b].path
            /\ \A a \in 1..Len(recs) :
                  LET last == LastWith(recs, recs[a].path)
                      inFile == QrPayload(files[recs[a].path].image)
                  IN  /\ recs[a].path \in DOMAIN files
                      /\ PasteOps(files[recs[a].path].image) # {}
                      /\ inFile.name = attendees[last]
                      /\ inFile.hash = recs[last].hash
            /\ Cardinality(paths) = Cardinality({SafeName(attendees[k]) : k \in 1..Len(attendees)})
            /\ {w.path : w \in Range(written)} = paths
            /\ (DOMAIN files) \ paths \subseteq {StalePath}

\* two different names that sanitize alike, and a third, were written; the two
\* colliding certificates carry different hashes
C3_Witness ==
    /\ InBatch /\ pc = "done" /\ Len(attendees) = 3
    /\ attendees[1] = ASlashB /\ attendees[2] = Ahmad /\ attendees[3] = AStarB
    /\ ret.value[1].hash # ret.value[3].hash
    /\ Cardinality(DOMAIN files) = 2

\* C4 as stated: two generate_hash calls with the same name and event give
\* different hashes.
C4_HashesDiffer ==
    \A a, b \in 1..Len(hashLog) :
        (a # b /\ hashLog[a].name = hashLog[b].name /\ hashLog[a].event = hashLog[b].event)
            => hashLog[a].hash # hashLog[b].hash

\* C5: once a render has returned, the hash in the QR payload of its image and
\* the ID text drawn on it are the hash the render returned, minted by the one
\* generate_hash call of that render; every batch record carries the hash that
\* is in the QR payload of the file written for it.
C5_OneHashPerRender ==
    /\ (pc \in {"write", "append"} \/ (IsSingle /\ pc = "done")) =>
          LET img == heap[cert]
          IN  /\ QrPayload(img).hash = cert_hash
              /\ \E k \in TextOps(img) : img.ops[k].what.text = HashDisplay(cert_hash)
              /\ Len(hashLog) = i
              /\ hashLog[i].hash = cert_hash
    /\ (IsSingle /\ pc = "done") =>
          /\ ret.value[1].hash = cert_hash
          /\ QrPayload(ret.value[1].image).hash = ret.value[1].hash
    /\ InBatch =>
          /\ Len(written) >= Len(results)
          /\ \A k \in 1..Len(results) :
                /\ written[k].index = k
                /\ QrPayload(written[k].content.image).hash = results[k].hash
                /\ hashLog[k].hash = results[k].hash

\* a batch record was appended for a render during which the clock advanced
\* between minting the hash and building the QR payload
C5_Witness ==
    /\ InBatch /\ pc = "done" /\ Len(results) >= 2
    /\ \E k \in 1..Len(results) :
          LET p == QrPayload(written[k].content.image)
          IN  p.hash = results[k].hash /\ p.hash # GenerateHash(p.name, p.event, now)

\* the content the writes of attendees before the current one left at path p
LastWritten(p) ==
    written[CHOOSE k \in 1..Len(written) :
                /\ written[k].path = p
                /\ \A m \in 1..Len(written) : written[m].path = p => m <= k].content

\* what holds of every failed batch, whatever the failure did to the files
AbortedBatch ==
    /\ error # ""
    /\ ~ret.returned
    /\ \A e \in Range(events) : e[2] <= i
    /\ \A w \in Range(written) : w.index < i
    /\ Len(written) = i - 1

\* C6 as stated: when the attendee at index i fails, the failure propagates, no
\* records are returned, no later attendee is rendered or written, and every file
\* written for an earlier attendee is intact.
C6_AsStated ==
    (InBatch /\ pc = "failed") =>
        /\ AbortedBatch
        /\ \A w \in Range(written) :
              w.path \in DOMAIN files /\ files[w.path] = LastWritten(w.path)

\* C6 (amended): when the attendee at index i fails, the failure propagates, no
\* records are returned, no later attendee is rendered or written, and every file
\* written for an earlier attendee is intact, except the file at the failing
\* attendee's own path when an earlier attendee sanitizes to the same file name and
\* the write failed after opening the file: that file is left truncated.
C6_BatchAborts ==
    (InBatch /\ pc = "failed") =>
        /\ AbortedBatch
        /\ \A w \in Range(written) :
              /\ w.path \in DOMAIN files
              /\ \/ files[w.path] = LastWritten(w.path)
                 \/ /\ w.path = OutputPath(attendees[i], save_as_pdf)
                    /\ error = "IOError"
                    /\ files[w.path] = PartialFile

\* the third attendee failed after two others were written, and their files are
\* intact
C6_Witness ==
    /\ InBatch /\ pc = "failed" /\ i = 3
    /\ Len(written) = 2 /\ written[1].path # written[2].path
    /\ \A w \in Range(written) : files[w.path] = w.content

\* C7: the template's buffer and the recorded width and height are, in every
\* state, what was loaded at construction.
C7_TemplateNeverMutated ==
    template # "" =>
        /\ heap[template] = LoadedImage(1200, 800)
        /\ template_width = 1200
        /\ template_height = 800

\* a call starts its first render after an earlier call has rendered (the clock
\* advances during renders only)
C7_Witness ==
    /\ pc = "render" /\ i = 1 /\ now > 0
    /\ template # ""

\* the render of the current attendee is over: it returned or it raised
RenderOver ==
    \/ pc \in {"write", "append"}
    \/ IsSingle /\ pc = "done"
    \/ pc = "failed" /\ error # "IOError"

\* C8 as stated: with a font path that cannot be loaded, generate_certificate
\* raises nothing, draws both texts with the default font and returns an image
\* and a hash.
C8_AsStated ==
    (TruetypeRaises(req.font_path) /\ RenderOver) =>
        /\ pc # "failed"
        /\ error = ""
        /\ fonts = [font |-> DefaultFont, hash_font |-> DefaultFont]
        /\ \A k \in TextOps(heap[cert]) : heap[cert].ops[k].what.font = DefaultFont
        /\ Cardinality(TextOps(heap[cert])) = 2
        /\ cert_hash # NoHash

\* C8 (amended): with a font path that cannot be loaded, generate_certificate
\* raises nothing on account of the font and draws both texts with the default
\* font; it returns an image and a hash unless the QR payload exceeds the symbol's
\* capacity, which raises whatever the font.
C8_FontFailureNotFatal ==
    (TruetypeRaises(req.font_path) /\ RenderOver) =>
        /\ fonts = [font |-> DefaultFont, hash_font |-> DefaultFont]
        /\ \A k \in TextOps(heap[cert]) : heap[cert].ops[k].what.font = DefaultFont
        /\ Cardinality(TextOps(heap[cert])) = 2
        /\ cert_hash # NoHash
        /\ pc = "failed" =>
              /\ error = "DataOverflowError"
              /\ QrOverflows(VerificationData(attendees[i], cert_hash, event_name, now))
        /\ pc # "failed" =>
              /\ error = ""
              /\ PasteOps(heap[cert]) # {}
              /\ IsSingle => ret = Returned(<<[image |-> heap[cert], hash |-> cert_hash]>>)

\* generate_certificate alone returned with None for a font path
C8_Witness ==
    /\ mode = "single" /\ pc = "done" /\ req.font_path = "None"
    /\ ret.returned

\* C9: batch_generate of an empty list returns an empty sequence, raises nothing,
\* renders nothing and writes no file.
C9_EmptyBatch ==
    (InBatch /\ attendees = <<>>) =>
        /\ pc \in {"idle", "return", "done"}
        /\ error = ""
        /\ events = <<>> /\ hashLog = <<>> /\ written = <<>> /\ results = <<>>
        /\ files \in InitialDirs
        /\ pc = "done" => ret = Returned(<<>>)

\* batch_generate of an empty list has returned
C9_Witness ==
    /\ mode = "batch" /\ pc = "done" /\ attendees = <<>>
    /\ ret.returned

\* C10: in the page, rendering and writing happen only with a template uploaded
\* and a non-empty attendee list, which is the list of the session; a run that
\* finds the list empty shows the "add attendees first" warning and starts nothing.
C10_AppNeverStartsEmptyBatch ==
    /\ pc # "idle" =>
          /\ template_uploaded /\ template # ""
          /\ attendees # <<>>
          /\ mode = "app" => attendees = st_attendees
          /\ mode = "preview" => attendees[1] \in Range(st_attendees)
    /\ (events # <<>> \/ hashLog # <<>> \/ written # <<>> \/ files # NoFiles) =>
          template_uploaded /\ st_attendees # <<>>
    /\ (template_uploaded /\ st_attendees = <<>> /\ message \notin {"", "exception"}) =>
          message = "warn_attendees" /\ pc = "idle"
    /\ message \in {"ready", "success", "error"} =>
          template_uploaded /\ st_attendees # <<>>

\* "Bulk Generate" was pressed with a template uploaded and an empty list: the
\* warning is shown and nothing runs
C10_Witness ==
    /\ click = "generate" /\ template_uploaded /\ st_attendees = <<>>
    /\ message = "warn_attendees" /\ pc = "idle"

\* C11: the image a render works on and returns has the template's width and
\* height at every step, whatever the positions, the font size and the QR size.
C11_TemplateSizeKept ==
    /\ (cert # "" /\ cert \in DOMAIN heap) =>
          /\ heap[cert].w = template_width /\ heap[cert].h = template_height
          /\ heap[cert].w = heap[template].w /\ heap[cert].h = heap[template].h
    /\ (IsSingle /\ pc = "done") =>
          /\ ret.value[1].image.w = template_width
          /\ ret.value[1].image.h = template_height
          /\ PasteOps(ret.value[1].image) # {}

\* a render returned after pasting a QR code larger than the template at a
\* position from which it sticks out
C11_Witness ==
    /\ IsSingle /\ pc = "done" /\ ret.returned
    /\ template_width = 100
    /\ req.qr_size > template_width
    /\ req.qr_position # <<>>
    /\ req.qr_position[1] + req.qr_size > template_width

\* the k-th thing a batch does: render, write, append for attendee 1, then for
\* attendee 2, and so on
StepKinds == <<"render", "write", "append">>
NthStep(k) == <<StepKinds[((k - 1) % 3) + 1], ((k - 1) \div 3) + 1>>

\* C12: a batch renders, writes and appends for one attendee after the other, in
\* that order: a render begins only when the records of all earlier attendees
\* are appended, a file is written only from a finished render of its attendee,
\* and every record present has its file written.
C12_StrictlySequential ==
    InBatch =>
        /\ \A k \in 1..Len(events) : events[k] = NthStep(k)
        /\ pc \in {"render", "mint", "qr", "write"} => Len(results) = i - 1
        /\ pc \in {"render", "mint", "qr"} => Len(written) = i - 1
        /\ \A k \in 1..Len(written) :
              /\ written[k].index = k
              /\ PasteOps(written[k].content.image) # {}
              /\ QrPayload(written[k].content.image).name = attendees[k]
        /\ Len(results) <= Len(written)
        /\ \A k \in 1..Len(results) :
              /\ written[k].path = results[k].path
              /\ results[k].path \in DOMAIN files

\* the render of the second attendee has begun, after the first was rendered,
\* written and recorded
C12_Witness ==
    /\ InBatch /\ pc = "mint" /\ i = 2
    /\ events = <<<<"render", 1>>, <<"write", 1>>, <<"append", 1>>, <<"render", 2>>>>
    /\ Len(results) = 1 /\ results[1].path \in DOMAIN files

\* the path names a file directly in the output directory: the directory, one
\* separator, and a file name without separators whose only dot begins the
\* three-letter extension
DirectChild(path) ==
    /\ Len(path) >= Len(OutputDir) + 1 + Len(PdfExt)
    /\ SubSeq(path, 1, Len(OutputDir) + 1) = OutputDir \o <<"/">>
    /\ LET name == SubSeq(path, Len(OutputDir) + 2, Len(path))
       IN  \A k \in 1..Len(name) :
              /\ name[k] \notin {"/", Backslash}
              /\ name[k] = "." <=> k = Len(name) - 3

\* C13: every path a batch writes, records or leaves in the directory is that of
\* a direct child of the output directory, for names with separators, dots and
\* '..' and for the empty name.
C13_FilesStayInOutputDir ==
    InBatch =>
        /\ \A w \in Range(written) : DirectChild(w.path)
        /\ \A r \in Range(results) : DirectChild(r.path)
        /\ \A p \in DOMAIN files : DirectChild(p)
        /\ pc \in {"write", "append"} => DirectChild(OutputPath(attendees[i], save_as_pdf))

\* a batch wrote the files of "../x", the empty name and "/e"
C13_Witness ==
    /\ InBatch /\ pc = "done" /\ Len(written) = 3
    /\ attendees = <<UpDir, <<>>, AbsPath>>
    /\ \A w \in Range(written) : w.path \in DOMAIN files

====
